---- MODULE Spec2Model ----
(***************************************************************************)
(* Model of check-nextcloud-counters.go: a run-once Nagios probe.          *)
(* main() validates the arguments, fetches the server-info document,       *)
(* extracts one counter and compares it with the thresholds.               *)
(*                                                                         *)
(* Two processes are run side by side on the same command line and the     *)
(* same environment; they differ only in the -debug flag (proc[TRUE] runs  *)
(* with -debug, proc[FALSE] without).  Every step gives both processes the *)
(* same input from the environment.                                        *)
(***************************************************************************)
EXTENDS Integers, Sequences, FiniteSets, TLC

\* ---------------------------------------------------------------- bounds
MaxThreshold == 2
MaxValue == 2
MaxRuntime == 2

Thresholds == (0 - MaxThreshold)..MaxThreshold
Values == (0 - MaxValue)..MaxValue
Durations == 1..MaxRuntime

\* command lines tried for -counter: the four names the program knows, the
\* flag's default, and a name the program does not know
CounterNames == {"AppUdatesAvailable", "FreeSpace", "NumShares", "ActiveUsers5Min", "", "update-count"}

\* HTTP status codes the client can hand back
Statuses == {200, 299, 300, 401}

\* ------------------------------------------------------- the JSON document
\* the four fields of NcPerfData the program reads
Fields == {"num_updates_available", "freespace", "num_shares", "last5minutes"}

\* what the document holds at a field: nothing, an integer that fits the Go
\* field, or something that does not decode into it (string, float, too big)
Absent == [kind |-> "absent", v |-> 0]
Other == [kind |-> "other", v |-> 0]
IntOf(n) == [kind |-> "int", v |-> n]
Contents == {Absent, Other} \cup {IntOf(n) : n \in Values}

\* a body: syntactically valid JSON or not, and the content at each field.
\* The bodies tried hold one content at one field and another at the rest.
DocOf(f, a, b) == [g \in Fields |-> IF g = f THEN a ELSE b]
Bodies == {[valid |-> ok, doc |-> DocOf(f, a, b)] : ok \in BOOLEAN, f \in Fields, a \in Contents, b \in Contents}
NoBody == [valid |-> FALSE, doc |-> [g \in Fields |-> Absent]]

\* ------------------------------------------------------------------ state
VARIABLES counter, warning, critical, perfdata, proc

vars == <<counter, warning, critical, perfdata, proc>>

Runs == BOOLEAN

\* formatted text: the format string and its arguments
Msg(fmt, name, num, text, rt) == [fmt |-> fmt, name |-> name, num |-> num, text |-> text, runtime |-> rt]
Line(label, msg, tail) == [label |-> label, msg |-> msg, tail |-> tail]

NoExit == 0 - 1
ZeroStruct == [g \in Fields |-> 0]

\* the process right after flag.Parse()
InitProc(d) == [debug |-> d, pc |-> "checkArguments", stdout |-> <<>>, stderr |-> <<>>, exit |-> NoExit, trace |-> <<>>, netCalls |-> 0, status |-> 0, bodyRead |-> FALSE, body |-> NoBody, m |-> ZeroStruct, extracted |-> FALSE, defaultCase |-> FALSE, perfInfo |-> 0]

\* ------------------------------------------------------------ the program
\* os.Exit has been called: nothing after the call runs
Done(p) == p.pc = "exited"

\* variant: the diagnostic is written with log.Fatalf, which ends the process
debugprint_fatal(p, msg) ==
    IF p.debug = TRUE THEN [p EXCEPT !.stderr = Append(@, Line("DEBUG", msg, "")), !.exit = 1, !.pc = "exited"] ELSE p

debugprint(p, msg) ==
    IF p.debug = TRUE THEN [p EXCEPT !.stdout = Append(@, Line("DEBUG", msg, ""))] ELSE p

nagiosResult(p, ret, message) ==
    CASE ret = 0 -> [p EXCEPT !.stdout = Append(@, Line("OK", message, "")), !.exit = ret, !.pc = "exited"]
      [] ret = 1 -> [p EXCEPT !.stdout = Append(@, Line("WARNING", message, " ")), !.exit = ret, !.pc = "exited"]
      [] ret = 2 -> [p EXCEPT !.stdout = Append(@, Line("CRITICAL", message, "")), !.exit = ret, !.pc = "exited"]
      [] OTHER -> [p EXCEPT !.stdout = Append(@, Line("UNKNOWN", message, "")), !.exit = 3, !.pc = "exited"]

\* log.Fatal(err): the error goes to standard error, then os.Exit(1)
logFatal(p, err) ==
    [p EXCEPT !.stderr = Append(@, Line("", Msg("%v", "", 0, err, 0), "")), !.exit = 1, !.pc = "exited"]

\* variant: the last name of the list is left out
allowedCounters_missing == {"AppUdatesAvailable", "FreeSpace", "NumShares"}

allowedCounters == {"AppUdatesAvailable", "FreeSpace", "NumShares", "ActiveUsers5Min"}

\* variant: equal thresholds are let through
checkArguments_gt(p) ==
    LET q == [p EXCEPT !.trace = Append(@, "checkArguments")]
    IN  IF warning > critical
        THEN nagiosResult(q, 3, Msg("Warning must be smaller than Critical", "", 0, "", 0))
        ELSE IF counter \in allowedCounters
             THEN [q EXCEPT !.pc = "request"]
             ELSE nagiosResult(q, 3, Msg("Unknown Counter", "", 0, "", 0))

checkArguments(p) ==
    LET q == [p EXCEPT !.trace = Append(@, "checkArguments")]
    IN  IF warning >= critical
        THEN nagiosResult(q, 3, Msg("Warning must be smaller than Critical", "", 0, "", 0))
        ELSE IF counter \in allowedCounters
             THEN [q EXCEPT !.pc = "request"]
             ELSE nagiosResult(q, 3, Msg("Unknown Counter", "", 0, "", 0))

\* net/http's StatusText, on the codes tried
StatusText(code) ==
    CASE code = 200 -> "OK"
      [] code = 300 -> "Multiple Choices"
      [] code = 401 -> "Unauthorized"
      [] OTHER -> ""

\* what building and sending the request can come to
Outcome(kind, status) == [kind |-> kind, status |-> status]
Outcomes == {Outcome("badURL", 0), Outcome("transportError", 0)} \cup {Outcome("response", s) : s \in Statuses}

\* variant: status 300 is taken for a success
fetchRequest_gt300(p, out) ==
    LET q0 == [p EXCEPT !.trace = Append(@, "request")]
        q1 == debugprint(q0, Msg("initiating GET request to %s", "", 0, "perfURL", 0))
        q2 == [q1 EXCEPT !.netCalls = @ + 1]
        q3 == [q2 EXCEPT !.status = out.status]
    IN  IF Done(q1) THEN q1
        ELSE IF out.kind = "badURL" THEN logFatal(q1, "NewRequest")
        ELSE IF out.kind = "transportError" THEN logFatal(q2, "Do")
        ELSE IF out.status > 300
             THEN nagiosResult(q3, 3, Msg("Http request returned %d (%s)", "", out.status, StatusText(out.status), 0))
             ELSE LET q4 == debugprint(q3, Msg("Status %s:", "", out.status, StatusText(out.status), 0))
                      q5 == IF Done(q4) THEN q4 ELSE debugprint(q4, Msg("%# v", "", 0, "resp.Header", 0))
                  IN  IF Done(q5) THEN q5 ELSE [q5 EXCEPT !.pc = "readBody"]

\* fetchPerformanceInfo up to the status check
fetchRequest(p, out) ==
    LET q0 == [p EXCEPT !.trace = Append(@, "request")]
        q1 == debugprint(q0, Msg("initiating GET request to %s", "", 0, "perfURL", 0))
        q2 == [q1 EXCEPT !.netCalls = @ + 1]
        q3 == [q2 EXCEPT !.status = out.status]
    IN  IF Done(q1) THEN q1
        ELSE IF out.kind = "badURL" THEN logFatal(q1, "NewRequest")
        ELSE IF out.kind = "transportError" THEN logFatal(q2, "Do")
        ELSE IF out.status > 299
             THEN nagiosResult(q3, 3, Msg("Http request returned %d (%s)", "", out.status, StatusText(out.status), 0))
             ELSE LET q4 == debugprint(q3, Msg("Status %s:", "", out.status, StatusText(out.status), 0))
                      q5 == IF Done(q4) THEN q4 ELSE debugprint(q4, Msg("%# v", "", 0, "resp.Header", 0))
                  IN  IF Done(q5) THEN q5 ELSE [q5 EXCEPT !.pc = "readBody"]

\* variant: the fields seen before a syntax error are stored
Unmarshal_partial(b) ==
    [g \in Fields |-> IF b.doc[g].kind = "int" THEN b.doc[g].v ELSE 0]

\* encoding/json's Unmarshal into NcPerfData: a syntax error leaves the
\* struct untouched; otherwise every field that decodes is stored and the
\* others keep their zero value
Unmarshal(b) ==
    IF b.valid
    THEN [g \in Fields |-> IF b.doc[g].kind = "int" THEN b.doc[g].v ELSE 0]
    ELSE ZeroStruct

\* the switch on counter at the end of fetchPerformanceInfo
switchCounter(c, m) ==
    CASE c = "AppUdatesAvailable" -> [isDefault |-> FALSE, v |-> m["num_updates_available"]]
      [] c = "FreeSpace" -> [isDefault |-> FALSE, v |-> m["freespace"]]
      [] c = "NumShares" -> [isDefault |-> FALSE, v |-> m["num_shares"]]
      [] c = "ActiveUsers5Min" -> [isDefault |-> FALSE, v |-> m["last5minutes"]]
      [] OTHER -> [isDefault |-> TRUE, v |-> 0 - 1]

\* what reading the body can come to
ReadResult(ok, body) == [ok |-> ok, body |-> body]
ReadResults == {ReadResult(FALSE, NoBody)} \cup {ReadResult(TRUE, b) : b \in Bodies}

\* fetchPerformanceInfo from ioutil.ReadAll to its return
fetchBody(p, res) ==
    LET q0 == [p EXCEPT !.trace = Append(@, "readBody")]
        q1 == [q0 EXCEPT !.bodyRead = TRUE, !.body = res.body]
        q2 == debugprint(q1, Msg("%s", "", 0, "body", 0))
        m == Unmarshal(res.body)
        r == switchCounter(counter, m)
    IN  IF ~res.ok THEN logFatal(q0, "ReadAll")
        ELSE IF Done(q2) THEN q2
        ELSE [q2 EXCEPT !.m = m, !.extracted = TRUE, !.defaultCase = r.isDefault, !.perfInfo = r.v, !.pc = "evaluate"]

\* variant: a value equal to the warning threshold still counts as OK
evaluate_le(p, rt) ==
    LET q == [p EXCEPT !.trace = Append(@, "evaluate")]
        plain == Msg("%s: %d", counter, p.perfInfo, "", 0)
        result == IF perfdata THEN Msg("%s: %d | %s=%d,runtime=%s", counter, p.perfInfo, "", rt) ELSE plain
    IN  IF p.perfInfo = 0 - 1 THEN nagiosResult(q, 3, Msg("Unknown value for %s", counter, 0, "", 0))
        ELSE IF p.perfInfo <= warning THEN nagiosResult(q, 0, result)
        ELSE IF p.perfInfo >= warning THEN nagiosResult(q, 1, result)
        ELSE IF p.perfInfo >= critical THEN nagiosResult(q, 2, result)
        ELSE [q EXCEPT !.exit = 0, !.pc = "exited"]

\* main after fetchPerformanceInfo has returned; rt is the elapsed time
evaluate(p, rt) ==
    LET q == [p EXCEPT !.trace = Append(@, "evaluate")]
        plain == Msg("%s: %d", counter, p.perfInfo, "", 0)
        result == IF perfdata THEN Msg("%s: %d | %s=%d,runtime=%s", counter, p.perfInfo, "", rt) ELSE plain
    IN  IF p.perfInfo = 0 - 1 THEN nagiosResult(q, 3, Msg("Unknown value for %s", counter, 0, "", 0))
        ELSE IF p.perfInfo < warning THEN nagiosResult(q, 0, result)
        ELSE IF p.perfInfo >= warning THEN nagiosResult(q, 1, result)
        ELSE IF p.perfInfo >= critical THEN nagiosResult(q, 2, result)
        ELSE [q EXCEPT !.exit = 0, !.pc = "exited"]

\* ---------------------------------------------------------------- actions
At(pcv) == \E d \in Runs : proc[d].pc = pcv

Init ==
    /\ counter \in CounterNames
    /\ warning \in Thresholds
    /\ critical \in Thresholds
    /\ perfdata \in BOOLEAN
    /\ proc = [d \in Runs |-> InitProc(d)]

CheckArguments ==
    /\ At("checkArguments")
    /\ proc' = [d \in Runs |-> IF proc[d].pc = "checkArguments" THEN checkArguments(proc[d]) ELSE proc[d]]
    /\ UNCHANGED <<counter, warning, critical, perfdata>>

FetchRequest ==
    /\ At("request")
    /\ \E out \in Outcomes :
          proc' = [d \in Runs |-> IF proc[d].pc = "request" THEN fetchRequest(proc[d], out) ELSE proc[d]]
    /\ UNCHANGED <<counter, warning, critical, perfdata>>

FetchBody ==
    /\ At("readBody")
    /\ \E res \in ReadResults :
          proc' = [d \in Runs |-> IF proc[d].pc = "readBody" THEN fetchBody(proc[d], res) ELSE proc[d]]
    /\ UNCHANGED <<counter, warning, critical, perfdata>>

Evaluate ==
    /\ At("evaluate")
    /\ \E rt \in Durations :
          proc' = [d \in Runs |-> IF proc[d].pc = "evaluate" THEN evaluate(proc[d], rt) ELSE proc[d]]
    /\ UNCHANGED <<counter, warning, critical, perfdata>>

Next == CheckArguments \/ FetchRequest \/ FetchBody \/ Evaluate

Spec == Init /\ [][Next]_vars

\* ------------------------------------------------------------- vocabulary
Severities == {"OK", "WARNING", "CRITICAL", "UNKNOWN"}

ExitCodeOf(label) ==
    CASE label = "OK" -> 0
      [] label = "WARNING" -> 1
      [] label = "CRITICAL" -> 2
      [] OTHER -> 3

IsSeverityLine(l) == l.label \in Severities
SeverityLines(p) == SelectSeq(p.stdout, IsSeverityLine)

\* the process has ended, printed exactly one severity line, with this
\* label, and left with this exit code
Reports(p, label, code) ==
    /\ Done(p)
    /\ p.exit = code
    /\ Len(SeverityLines(p)) = 1
    /\ SeverityLines(p)[1].label = label

ResultMsg(p) == SeverityLines(p)[1].msg
Stage(p) == IF p.trace = <<>> THEN "" ELSE p.trace[Len(p.trace)]
Evaluated(p) == Done(p) /\ Stage(p) = "evaluate"

\* the metric names the extractor has a case for
SupportedMetrics == {c \in CounterNames : ~switchCounter(c, ZeroStruct).isDefault}

\* the JSON field a metric is read from
RequestedField(c) ==
    CASE c = "AppUdatesAvailable" -> "num_updates_available"
      [] c = "FreeSpace" -> "freespace"
      [] c = "NumShares" -> "num_shares"
      [] OTHER -> "last5minutes"

\* ------------------------------------------------------------------ claims

\* C1: a run whose extracted value is at or above the critical threshold,
\* and is not the unknown sentinel, reports CRITICAL and exits with code 2.
C1_CriticalAtOrAboveThreshold ==
    \A d \in Runs :
        (Evaluated(proc[d]) /\ proc[d].perfInfo # 0 - 1 /\ proc[d].perfInfo >= critical)
            => Reports(proc[d], "CRITICAL", 2)

\* C2: every run that has ended has reported exactly one of the four
\* severities and its exit code is the one that goes with that severity.
C2_EveryExitHasItsSeverity ==
    \A d \in Runs :
        Done(proc[d]) => \E label \in Severities : Reports(proc[d], label, ExitCodeOf(label))

\* C3: with warning >= critical, whatever the metric name, the run issues no
\* network request and ends in validation with UNKNOWN and exit code 3.
C3_BadThresholdsRejectedBeforeNetwork ==
    \A d \in Runs :
        warning >= critical =>
            /\ proc[d].netCalls = 0
            /\ proc[d].trace # <<>> =>
                  /\ Reports(proc[d], "UNKNOWN", 3)
                  /\ proc[d].trace = <<"checkArguments">>

C3_Witness ==
    /\ warning >= critical
    /\ counter \in SupportedMetrics
    /\ Reports(proc[FALSE], "UNKNOWN", 3)

\* C4: a metric name outside the supported set ends the run in validation
\* with UNKNOWN and exit code 3, with no network request, body read,
\* extraction or evaluation; a supported name with warning < critical passes
\* validation and goes on to the request.
C4_UnknownMetricRejectedBeforeIO ==
    \A d \in Runs :
        /\ counter \notin SupportedMetrics =>
              /\ proc[d].netCalls = 0
              /\ ~proc[d].bodyRead
              /\ ~proc[d].extracted
              /\ proc[d].trace # <<>> =>
                    /\ Reports(proc[d], "UNKNOWN", 3)
                    /\ proc[d].trace = <<"checkArguments">>
        /\ (counter \in SupportedMetrics /\ warning < critical /\ proc[d].trace # <<>>) =>
              /\ proc[d].trace[1] = "checkArguments"
              /\ Len(proc[d].trace) = 1 =>
                    /\ proc[d].pc = "request"
                    /\ SeverityLines(proc[d]) = <<>>

C4_Witness ==
    /\ counter \notin SupportedMetrics
    /\ warning < critical
    /\ Reports(proc[FALSE], "UNKNOWN", 3)
    /\ ResultMsg(proc[FALSE]).fmt = "Unknown Counter"

\* what holds of a run that got a response with status >= 300
HttpErrorReported(p) ==
    /\ Reports(p, "UNKNOWN", 3)
    /\ ResultMsg(p).fmt = "Http request returned %d (%s)"
    /\ ResultMsg(p).num = p.status
    /\ ResultMsg(p).text = StatusText(p.status)
    /\ ~p.bodyRead
    /\ ~p.extracted
    /\ p.trace = <<"checkArguments", "request">>

ReadFailed(p) ==
    /\ Done(p)
    /\ p.exit = 1
    /\ p.trace = <<"checkArguments", "request", "readBody">>
    /\ SeverityLines(p) = <<>>
    /\ ~p.extracted

C6_OkBelowWarningElseWarning ==
    \A d \in Runs :
        (Evaluated(proc[d]) /\ warning < critical /\ proc[d].perfInfo # 0 - 1 /\ proc[d].perfInfo < critical) =>
            /\ Reports(proc[d], "OK", 0) <=> proc[d].perfInfo < warning
            /\ Reports(proc[d], "WARNING", 1) <=> proc[d].perfInfo >= warning
            /\ Len(SeverityLines(proc[d])) = 1
            /\ ResultMsg(proc[d]).name = counter
            /\ ResultMsg(proc[d]).num = proc[d].perfInfo

C6_Witness ==
    /\ Evaluated(proc[FALSE])
    /\ proc[FALSE].perfInfo # 0 - 1
    /\ proc[FALSE].perfInfo = warning
    /\ proc[FALSE].perfInfo < critical
    /\ Reports(proc[FALSE], "WARNING", 1)

\* the body that was read is malformed, or is valid and lacks the field
MalformedOrMissing(p) ==
    /\ p.bodyRead
    /\ \/ ~p.body.valid
       \/ p.body.doc[RequestedField(counter)] = Absent

\* C7: a success status with a malformed body, or a valid one lacking the
\* requested field, does not abort the run: extraction yields 0, not the
\* sentinel, and the run ends as for a reported value of 0 (OK if
\* 0 < warning, otherwise WARNING).
C7_TolerantDecodeYieldsZero ==
    \A d \in Runs :
        MalformedOrMissing(proc[d]) =>
            /\ proc[d].extracted
            /\ proc[d].perfInfo = 0
            /\ ~proc[d].defaultCase
            /\ proc[d].stderr = <<>>
            /\ Done(proc[d]) =>
                  /\ Stage(proc[d]) = "evaluate"
                  /\ ResultMsg(proc[d]).num = 0
                  /\ IF 0 < warning THEN Reports(proc[d], "OK", 0) ELSE Reports(proc[d], "WARNING", 1)

C7_Witness ==
    /\ Evaluated(proc[FALSE])
    /\ ~proc[FALSE].body.valid
    /\ proc[FALSE].body.doc[RequestedField(counter)] = IntOf(MaxValue)
    /\ Reports(proc[FALSE], "OK", 0)

\* C8: every invocation writes exactly one line to standard output, and it
\* is a severity line.
C8_ExactlyOneStdoutLine ==
    \A d \in Runs :
        Done(proc[d]) => (Len(proc[d].stdout) = 1 /\ IsSeverityLine(proc[d].stdout[1]))

\* C9: the run with -debug and the run without it, on the same command line
\* and environment, have been through the same stages, stand at the same
\* point, and have the same exit code and the same severity lines.
C9_DebugDoesNotAlterControlFlow ==
    /\ proc[TRUE].pc = proc[FALSE].pc
    /\ proc[TRUE].trace = proc[FALSE].trace
    /\ proc[TRUE].exit = proc[FALSE].exit
    /\ SeverityLines(proc[TRUE]) = SeverityLines(proc[FALSE])
    /\ proc[TRUE].stderr = proc[FALSE].stderr
    /\ proc[TRUE].netCalls = proc[FALSE].netCalls

C9_Witness ==
    /\ Evaluated(proc[TRUE])
    /\ Evaluated(proc[FALSE])
    /\ perfdata
    /\ Len(proc[TRUE].stdout) = 5
    /\ Len(proc[FALSE].stdout) = 1

\* C10: a run that passed validation never takes the extractor's default
\* branch and never reports 'Unknown value for <metric>'.
C10_NoUnknownValueAfterValidation ==
    \A d \in Runs :
        Len(proc[d].trace) >= 2 =>
            /\ ~proc[d].defaultCase
            /\ \A i \in 1..Len(proc[d].stdout) : proc[d].stdout[i].msg.fmt # "Unknown value for %s"

\* the part of C10 that does hold: the default branch is never taken
DefaultBranchNeverTaken == \A d \in Runs : ~proc[d].defaultCase

====
